---- MODULE Spec2Model ----
(***************************************************************************)
(* url-checker: the bounded-concurrency dispatcher and the reduction of    *)
(* the outcomes into statistics, for the two front ends of the repository: *)
(*   cli  src/src/main.rs             (buffer_unordered stream)            *)
(*   gui  src/gui/src-tauri/src/main.rs (spawned tasks + semaphore)        *)
(* One run of one front end is one behaviour; prog says which.             *)
(***************************************************************************)
EXTENDS Integers, Sequences, FiniteSets, Bags, TLC

\* ---------------------------------------------------------------------
\* Bounds of the model
\* ---------------------------------------------------------------------
MaxN == 2          \* at most this many lines / request URLs
MaxC == 2          \* concurrency limits 0..MaxC
MaxTime == 1       \* the request timeout: elapsed times 0..MaxTime (model ms)

\* ---------------------------------------------------------------------
\* Program constants
\* ---------------------------------------------------------------------
\* u128::MAX, the initial min_time. TLC integers are 32 bits wide, so the
\* top of the type is represented by the top of TLC's range; no elapsed
\* time of the model comes near it.
U128_MAX == 2147483647

\* Option::None of Response::content_length()
NoContentLength == -1

\* http::StatusCode holds 100..=999: the client rejects any other status
\* line as a transport error, so as_u16() is always in this range.
MinStatusCode == 100
MaxStatusCode == 999

\* the per-request timeout given to Client::builder().timeout(..), in
\* model milliseconds: no request outlives it
timeout_ms == MaxTime

\* ---------------------------------------------------------------------
\* Text: a string is a sequence of one-character strings
\* ---------------------------------------------------------------------
Digit == <<"0", "1", "2", "3", "4", "5", "6", "7", "8", "9">>

RECURSIVE to_string(_)
\* u16::to_string: the decimal digits, most significant first
to_string(n) ==
    IF n < 10 THEN <<Digit[n + 1]>>
    ELSE to_string(n \div 10) \o <<Digit[(n % 10) + 1]>>

\* str::starts_with(char)
starts_with(s, c) == Len(s) > 0 /\ s[1] = c

IsWhite(c) == c = " "

RECURSIVE trim_start(_)
trim_start(s) ==
    IF s # <<>> /\ IsWhite(Head(s)) THEN trim_start(Tail(s)) ELSE s

RECURSIVE trim_end(_)
trim_end(s) ==
    IF s # <<>> /\ IsWhite(s[Len(s)]) THEN trim_end(SubSeq(s, 1, Len(s) - 1))
    ELSE s

\* str::trim
trim(s) == trim_end(trim_start(s))

ERROR == <<"E", "R", "R", "O", "R">>

\* ---------------------------------------------------------------------
\* Inputs
\* ---------------------------------------------------------------------
\* lines of the input file as BufRead::lines yields them: Ok(text) or Err
Lines ==
    { [ok |-> TRUE, text |-> <<>>],
      [ok |-> TRUE, text |-> <<" ">>],
      [ok |-> TRUE, text |-> <<"a">>],
      [ok |-> TRUE, text |-> <<" ", "b", " ">>],
      [ok |-> FALSE, text |-> <<>>] }

\* request.urls of the gui: non-empty trimmed strings
Urls == { <<"a">>, <<"b">> }

SeqsUpTo(S, n) == UNION { [1..k -> S] : k \in 0..n }

\* The request.urls of the model. A URL is opaque to the program, so two
\* lists that differ by renaming a and b behave alike: the first is a.
RequestUrls(n) == { us \in SeqsUpTo(Urls, n) : us = <<>> \/ us[1] = <<"a">> }

\* status codes the mock servers answer with in the main specification
Codes == {200, 404}

AllCodes == MinStatusCode..MaxStatusCode

\* the Content-Length a response advertises, if any
ContentLengths == {NoContentLength, 1024}

\* What the server behind a target does: answers with a status code and
\* an optional Content-Length after `elapsed`, or the request fails at the
\* transport level after `elapsed`. A server that never answers is the
\* failure after timeout_ms.
Servers(codes) ==
    [kind : {"resp"}, code : codes, content_length : ContentLengths,
     elapsed : 0..timeout_ms]
    \cup [kind : {"fail"}, code : {0}, content_length : {NoContentLength},
          elapsed : 0..timeout_ms]

\* client.get(&url).send().await together with start.elapsed(): the
\* response or the error, and the milliseconds it took
send(s) ==
    IF s.kind = "resp"
    THEN [ok |-> TRUE, code |-> s.code, content_length |-> s.content_length,
          elapsed |-> s.elapsed]
    ELSE [ok |-> FALSE, code |-> 0, content_length |-> NoContentLength,
          elapsed |-> s.elapsed]

\* Option::unwrap_or(0) on content_length()
unwrap_or_0(cl) == IF cl = NoContentLength THEN 0 ELSE cl

\* ---------------------------------------------------------------------
\* Single-check units
\* ---------------------------------------------------------------------
\* cli check_url: Ok(ResultRow) for a response; for a transport error
\* Err((url, message)), which carries neither the elapsed time nor a size
check_url(s, url) ==
    LET resp == send(s) IN
    IF resp.ok
    THEN [ok |-> TRUE, url |-> url, status |-> to_string(resp.code),
          time_ms |-> resp.elapsed,
          size_bytes |-> unwrap_or_0(resp.content_length)]
    ELSE [ok |-> FALSE, url |-> url]

\* gui: success = status_code >= 200 && status_code < 400
is_success(status_code) == status_code >= 200 /\ status_code < 400

\* gui check_single_url: always Ok(UrlResult)
check_single_url(s, url) ==
    LET resp == send(s) IN
    IF resp.ok
    THEN [url |-> url, status |-> to_string(resp.code),
          time_ms |-> resp.elapsed,
          size_bytes |-> unwrap_or_0(resp.content_length),
          success |-> is_success(resp.code)]
    ELSE [url |-> url, status |-> ERROR, time_ms |-> resp.elapsed,
          size_bytes |-> 0, success |-> FALSE]

\* ---------------------------------------------------------------------
\* Reduction
\* ---------------------------------------------------------------------
\* cli: let mut stats = Stats { .. }
cli_stats0 ==
    [total |-> 0, up |-> 0, down |-> 0, total_time |-> 0,
     min_time |-> U128_MAX, max_time |-> 0, total_size |-> 0]

\* gui: let mut stats = Stats { .. }
gui_stats0 ==
    [total |-> 0, up |-> 0, down |-> 0, avg_time |-> 0,
     min_time |-> U128_MAX, max_time |-> 0, total_size |-> 0]

\* mutant: only 2xx counts as up
cli_is_up_2xx_only(status) == starts_with(status, "2")

\* cli: row.status.starts_with('2') || row.status.starts_with('3')
cli_is_up(status) == starts_with(status, "2") \/ starts_with(status, "3")

\* mutant: max_time is overwritten by the latest row
cli_reduce_ok_last_max(st, row) ==
    [total |-> st.total + 1,
     total_time |-> st.total_time + row.time_ms,
     total_size |-> st.total_size + row.size_bytes,
     min_time |-> IF row.time_ms < st.min_time THEN row.time_ms ELSE st.min_time,
     max_time |-> row.time_ms,
     up |-> IF cli_is_up(row.status) THEN st.up + 1 ELSE st.up,
     down |-> IF cli_is_up(row.status) THEN st.down ELSE st.down + 1]

\* cli, the Ok(row) arm of the loop over results
cli_reduce_ok(st, row) ==
    [total |-> st.total + 1,
     total_time |-> st.total_time + row.time_ms,
     total_size |-> st.total_size + row.size_bytes,
     min_time |-> IF row.time_ms < st.min_time THEN row.time_ms ELSE st.min_time,
     max_time |-> IF row.time_ms > st.max_time THEN row.time_ms ELSE st.max_time,
     up |-> IF cli_is_up(row.status) THEN st.up + 1 ELSE st.up,
     down |-> IF cli_is_up(row.status) THEN st.down ELSE st.down + 1]

\* cli, the row the Err((url, err_msg)) arm pushes to all_results
cli_error_row(url) ==
    [url |-> url, status |-> ERROR, time_ms |-> 0, size_bytes |-> 0]

\* mutant: the Err arm forgets stats.down += 1
cli_reduce_err_total_only(st) ==
    [st EXCEPT !.total = @ + 1]

\* cli, the Err arm of the loop over results
cli_reduce_err(st) ==
    [st EXCEPT !.total = @ + 1, !.down = @ + 1]

\* cli, the row the Ok(row) arm pushes to all_results
cli_ok_row(r) ==
    [url |-> r.url, status |-> r.status, time_ms |-> r.time_ms,
     size_bytes |-> r.size_bytes]

\* cli, the "metadata" object of the JSON export, and whether
\* print_statistics prints N/A for the three times
cli_report(st) ==
    [total |-> st.total, up |-> st.up, down |-> st.down,
     avg_time_ms |-> IF st.up > 0 THEN st.total_time \div st.up ELSE 0,
     min_time_ms |-> IF st.min_time # U128_MAX THEN st.min_time ELSE 0,
     max_time_ms |-> st.max_time,
     total_size_bytes |-> st.total_size,
     times_na |-> (st.min_time = U128_MAX)]

\* mutant: the size is added for successful outcomes only
gui_reduce_size_on_success(st, result) ==
    [total |-> st.total + 1,
     total_size |-> IF result.success THEN st.total_size + result.size_bytes
                    ELSE st.total_size,
     up |-> IF result.success THEN st.up + 1 ELSE st.up,
     down |-> IF result.success THEN st.down ELSE st.down + 1,
     min_time |-> IF result.success /\ result.time_ms < st.min_time
                  THEN result.time_ms ELSE st.min_time,
     max_time |-> IF result.success /\ result.time_ms > st.max_time
                  THEN result.time_ms ELSE st.max_time,
     avg_time |-> st.avg_time]

\* gui, the body of the Ok(result) arm of the loop over handles
gui_reduce(st, result) ==
    [total |-> st.total + 1,
     total_size |-> st.total_size + result.size_bytes,
     up |-> IF result.success THEN st.up + 1 ELSE st.up,
     down |-> IF result.success THEN st.down ELSE st.down + 1,
     min_time |-> IF result.success /\ result.time_ms < st.min_time
                  THEN result.time_ms ELSE st.min_time,
     max_time |-> IF result.success /\ result.time_ms > st.max_time
                  THEN result.time_ms ELSE st.max_time,
     avg_time |-> st.avg_time]

RECURSIVE sum_success_time(_)
\* gui: results.iter().filter(|r| r.success).map(|r| r.time_ms).sum()
sum_success_time(rs) ==
    IF rs = <<>> THEN 0
    ELSE (IF Head(rs).success THEN Head(rs).time_ms ELSE 0)
         + sum_success_time(Tail(rs))

\* mutant: min_time is not reset when there is no success
gui_finalize_keeps_min(st, rs) ==
    IF st.up > 0
    THEN [st EXCEPT !.avg_time = sum_success_time(rs) \div st.up]
    ELSE st

\* gui, "Calculate average time"
gui_finalize(st, rs) ==
    IF st.up > 0
    THEN [st EXCEPT !.avg_time = sum_success_time(rs) \div st.up]
    ELSE [st EXCEPT !.min_time = 0]

\* gui, the stats of the CheckResponse under the names of the report
gui_report(st) ==
    [total |-> st.total, up |-> st.up, down |-> st.down,
     avg_time_ms |-> st.avg_time, min_time_ms |-> st.min_time,
     max_time_ms |-> st.max_time, total_size_bytes |-> st.total_size,
     times_na |-> FALSE]

no_report ==
    [total |-> 0, up |-> 0, down |-> 0, avg_time_ms |-> 0, min_time_ms |-> 0,
     max_time_ms |-> 0, total_size_bytes |-> 0, times_na |-> FALSE]

\* ---------------------------------------------------------------------
\* State
\* ---------------------------------------------------------------------
VARIABLES
    prog,          \* "cli" or "gui"
    input,         \* cli: the input file (readable or not, its lines)
    urls,          \* the targets: cli urls / gui request.urls
    server,        \* server[i]: what the server behind target i does
    concurrency,   \* args.concurrency / request.concurrency
    pc,            \* where main / check_urls is, or how it returned
    task,          \* task[i]: where the check of target i is
    results,       \* cli: the Vec collected from the stream
    output,        \* gui: output[i], what the join handle of task i holds
    k,             \* iterations done by the loop over results / handles
    all_results,   \* cli all_results / gui results
    stats,         \* the running Stats
    report,        \* the statistics handed out when the run returns
    permits        \* gui: available permits of the semaphore

vars ==
    <<prog, input, urls, server, concurrency, pc, task, results, output, k,
      all_results, stats, report, permits>>

N == Len(urls)

\* cli: the filter_map of main over the lines read: trim, drop the empty
RECURSIVE filter_urls(_)
filter_urls(ls) ==
    IF ls = <<>> THEN <<>>
    ELSE LET s == trim(Head(ls)) IN
         IF s = <<>> THEN filter_urls(Tail(ls))
         ELSE <<s>> \o filter_urls(Tail(ls))

RECURSIVE ok_lines(_)
\* cli read_lines: reader.lines().filter_map(|l| l.ok()).collect()
ok_lines(ls) ==
    IF ls = <<>> THEN <<>>
    ELSE IF Head(ls).ok THEN <<Head(ls).text>> \o ok_lines(Tail(ls))
    ELSE ok_lines(Tail(ls))

no_file == [readable |-> TRUE, lines |-> <<>>]

Files(n) ==
    [readable : {FALSE}, lines : {<<>>}]
    \cup [readable : {TRUE}, lines : SeqsUpTo(Lines, n)]

InitOf(codes, n, cs) ==
    /\ prog \in {"cli", "gui"}
    /\ concurrency \in cs
    /\ IF prog = "cli"
       THEN /\ input \in Files(n)
            /\ urls = <<>>
            /\ server \in [1..Len(filter_urls(ok_lines(input.lines))) -> Servers(codes)]
            /\ pc = "read"
       ELSE /\ input = no_file
            /\ urls \in RequestUrls(n)
            /\ server \in [1..Len(urls) -> Servers(codes)]
            /\ pc = "build"
    /\ task = [i \in 1..Len(urls) |-> "queued"]
    /\ results = <<>>
    /\ output = [i \in 1..Len(urls) |-> <<>>]
    /\ k = 0
    /\ all_results = <<>>
    /\ stats = IF prog = "cli" THEN cli_stats0 ELSE gui_stats0
    /\ report = no_report
    /\ permits = concurrency

Init == InitOf(Codes, MaxN, 0..MaxC)

InFlight == {i \in 1..N : task[i] = "inflight"}

\* ---------------------------------------------------------------------
\* cli main
\* ---------------------------------------------------------------------
\* read_lines(&args.input).with_context(..)? and the filter_map
CliReadUrls ==
    /\ prog = "cli" /\ pc = "read"
    /\ IF ~input.readable
       THEN /\ pc' = "err_read"
            /\ UNCHANGED <<input, urls, task, output>>
       ELSE /\ urls' = filter_urls(ok_lines(input.lines))
            /\ input' = no_file
            /\ task' = [i \in 1..Len(urls') |-> "queued"]
            /\ output' = [i \in 1..Len(urls') |-> <<>>]
            /\ pc' = "validate"
    /\ UNCHANGED <<prog, server, concurrency, results, k, all_results, stats,
                   report, permits>>

\* mutant: no early return on an empty list
CliValidate_NoReturn ==
    /\ prog = "cli" /\ pc = "validate"
    /\ pc' = "build"
    /\ UNCHANGED <<prog, input, urls, server, concurrency, task, results,
                   output, k, all_results, stats, report, permits>>

\* if urls.is_empty() { eprintln!(..); return Ok(()); }
CliValidate ==
    /\ prog = "cli" /\ pc = "validate"
    /\ pc' = IF urls = <<>> THEN "exit_empty" ELSE "build"
    /\ UNCHANGED <<prog, input, urls, server, concurrency, task, results,
                   output, k, all_results, stats, report, permits>>

\* Client::builder()...build()?
CliBuildClient ==
    /\ prog = "cli" /\ pc = "build"
    /\ pc' \in {"dispatch", "err_build"}
    /\ UNCHANGED <<prog, input, urls, server, concurrency, task, results,
                   output, k, all_results, stats, report, permits>>

\* mutant: the fill loop admits one future too many
buffer_has_room_inclusive(in_progress, max) == in_progress <= max

\* BufferUnordered::poll_next: while in_progress_queue.len() < max
buffer_has_room(in_progress, max) == in_progress < max

Queued == {i \in 1..N : task[i] = "queued"}

CanPull == Queued # {} /\ buffer_has_room(Cardinality(InFlight), concurrency)

\* the fill loop of buffer_unordered takes the next future of the stream
CliPull ==
    /\ prog = "cli" /\ pc = "dispatch"
    /\ CanPull
    /\ LET i == CHOOSE j \in Queued : \A m \in Queued : j <= m IN
       task' = [task EXCEPT ![i] = "inflight"]
    /\ UNCHANGED <<prog, input, urls, server, concurrency, pc, results, output,
                   k, all_results, stats, report, permits>>

\* a buffered future finishes (polled only after the fill loop); collect
\* pushes its output
CliComplete(i) ==
    /\ prog = "cli" /\ pc = "dispatch"
    /\ ~CanPull
    /\ task[i] = "inflight"
    /\ task' = [task EXCEPT ![i] = "done"]
    /\ results' = Append(results, check_url(server[i], urls[i]))
    /\ UNCHANGED <<prog, input, urls, server, concurrency, pc, output, k,
                   all_results, stats, report, permits>>

\* mutant: collect returns as soon as the stream is exhausted
CliCollected_StreamDoneOnly ==
    /\ prog = "cli" /\ pc = "dispatch"
    /\ Queued = {}
    /\ pc' = "reduce"
    /\ stats' = cli_stats0
    /\ UNCHANGED <<prog, input, urls, server, concurrency, task, results,
                   output, k, all_results, report, permits>>

\* the stream is exhausted and the buffer empty: .collect().await returns
CliCollected ==
    /\ prog = "cli" /\ pc = "dispatch"
    /\ Queued = {} /\ InFlight = {}
    /\ pc' = "reduce"
    /\ stats' = cli_stats0
    /\ UNCHANGED <<prog, input, urls, server, concurrency, task, results,
                   output, k, all_results, report, permits>>

\* mutant: the Err arm forgets all_results.push(error_row)
CliReduce_SkipsErrorRow ==
    /\ prog = "cli" /\ pc = "reduce"
    /\ k < Len(results)
    /\ LET r == results[k + 1] IN
       IF r.ok
       THEN /\ all_results' = Append(all_results, cli_ok_row(r))
            /\ stats' = cli_reduce_ok(stats, r)
       ELSE /\ all_results' = all_results
            /\ stats' = cli_reduce_err(stats)
    /\ k' = k + 1
    /\ UNCHANGED <<prog, input, urls, server, concurrency, pc, task, results,
                   output, report, permits>>

\* one iteration of: for r in results
CliReduce ==
    /\ prog = "cli" /\ pc = "reduce"
    /\ k < Len(results)
    /\ LET r == results[k + 1] IN
       IF r.ok
       THEN /\ all_results' = Append(all_results, cli_ok_row(r))
            /\ stats' = cli_reduce_ok(stats, r)
       ELSE /\ all_results' = Append(all_results, cli_error_row(r.url))
            /\ stats' = cli_reduce_err(stats)
    /\ k' = k + 1
    /\ UNCHANGED <<prog, input, urls, server, concurrency, pc, task, results,
                   output, report, permits>>

\* the export and print_statistics; Ok(())
CliExport ==
    /\ prog = "cli" /\ pc = "reduce"
    /\ k = Len(results)
    /\ report' = cli_report(stats)
    /\ pc' = "done"
    /\ UNCHANGED <<prog, input, urls, server, concurrency, task, results,
                   output, k, all_results, stats, permits>>

\* ---------------------------------------------------------------------
\* gui check_urls
\* ---------------------------------------------------------------------
after_spawn(n) == IF n < N THEN "spawn" ELSE "await"

Spawned == {i \in 1..N : task[i] # "queued"}

\* mutant: the client is built after the tasks were spawned
GuiBuildClient_AfterSpawn ==
    /\ prog = "gui"
    /\ \/ pc = "build" /\ pc' = after_spawn(0)
       \/ pc = "await" /\ pc' = "err_build"
    /\ UNCHANGED <<prog, input, urls, server, concurrency, task, results,
                   output, k, all_results, stats, report, permits>>

\* reqwest::Client::builder()...build().map_err(..)?
GuiBuildClient ==
    /\ prog = "gui" /\ pc = "build"
    /\ pc' \in {after_spawn(0), "err_build"}
    /\ UNCHANGED <<prog, input, urls, server, concurrency, task, results,
                   output, k, all_results, stats, report, permits>>

\* one iteration of: for url in request.urls { .. tokio::spawn(..) .. }
GuiSpawn ==
    /\ prog = "gui" /\ pc = "spawn"
    /\ LET i == Cardinality(Spawned) + 1 IN
       /\ task' = [task EXCEPT ![i] = "waiting"]
       /\ pc' = after_spawn(i)
    /\ UNCHANGED <<prog, input, urls, server, concurrency, results, output, k,
                   all_results, stats, report, permits>>

\* mutant: a permit is handed out when none is left
permit_available_at_zero(p) == p >= 0

\* mutant: the last permit is never handed out
permit_available_keeps_one(p) == p > 1

\* Semaphore::acquire completes only while a permit is available
permit_available(p) == p > 0

\* let _permit = permit.acquire().await.unwrap();
GuiAcquire(i) ==
    /\ prog = "gui"
    /\ task[i] = "waiting"
    /\ permit_available(permits)
    /\ permits' = permits - 1
    /\ task' = [task EXCEPT ![i] = "inflight"]
    /\ UNCHANGED <<prog, input, urls, server, concurrency, pc, results, output,
                   k, all_results, stats, report>>

\* mutant: the permit is forgotten instead of dropped
GuiFinish_KeepsPermit(i) ==
    /\ prog = "gui"
    /\ task[i] = "inflight"
    /\ task' = [task EXCEPT ![i] = "done"]
    /\ output' = [output EXCEPT ![i] = <<check_single_url(server[i], urls[i])>>]
    /\ permits' = permits
    /\ UNCHANGED <<prog, input, urls, server, concurrency, pc, results, k,
                   all_results, stats, report>>

\* check_single_url(client, url).await returns; _permit is dropped
GuiFinish(i) ==
    /\ prog = "gui"
    /\ task[i] = "inflight"
    /\ task' = [task EXCEPT ![i] = "done"]
    /\ output' = [output EXCEPT ![i] = <<check_single_url(server[i], urls[i])>>]
    /\ permits' = permits + 1
    /\ UNCHANGED <<prog, input, urls, server, concurrency, pc, results, k,
                   all_results, stats, report>>

\* the task of a check panics inside the check: its handle will yield a
\* JoinError; unwinding drops _permit
GuiFault(i) ==
    /\ prog = "gui"
    /\ task[i] = "inflight"
    /\ task' = [task EXCEPT ![i] = "panicked"]
    /\ permits' = permits + 1
    /\ UNCHANGED <<prog, input, urls, server, concurrency, pc, results, output,
                   k, all_results, stats, report>>

\* mutant: the result is put in front of the results
GuiAwait_Prepends ==
    /\ prog = "gui" /\ pc = "await"
    /\ k < N
    /\ task[k + 1] \in {"done", "panicked"}
    /\ IF task[k + 1] = "done"
       THEN LET result == output[k + 1][1] IN
            /\ stats' = gui_reduce(stats, result)
            /\ all_results' = <<result>> \o all_results
            /\ k' = k + 1
            /\ pc' = pc
       ELSE /\ pc' = "err_task"
            /\ UNCHANGED <<stats, all_results, k>>
    /\ UNCHANGED <<prog, input, urls, server, concurrency, task, results,
                   output, report, permits>>

\* mutant: a join error is recorded as an ERROR outcome of its URL
GuiAwait_RecordsFault ==
    /\ prog = "gui" /\ pc = "await"
    /\ k < N
    /\ task[k + 1] \in {"done", "panicked"}
    /\ LET result ==
           IF task[k + 1] = "done" THEN output[k + 1][1]
           ELSE [url |-> urls[k + 1], status |-> ERROR, time_ms |-> 0,
                 size_bytes |-> 0, success |-> FALSE]
       IN /\ stats' = gui_reduce(stats, result)
          /\ all_results' = Append(all_results, result)
          /\ k' = k + 1
          /\ pc' = pc
    /\ UNCHANGED <<prog, input, urls, server, concurrency, task, results,
                   output, report, permits>>

\* mutant: a transport failure is propagated by `result?`
GuiAwait_PropagatesFailure ==
    /\ prog = "gui" /\ pc = "await"
    /\ k < N
    /\ task[k + 1] \in {"done", "panicked"}
    /\ IF task[k + 1] = "done" /\ output[k + 1][1].status # ERROR
       THEN LET result == output[k + 1][1] IN
            /\ stats' = gui_reduce(stats, result)
            /\ all_results' = Append(all_results, result)
            /\ k' = k + 1
            /\ pc' = pc
       ELSE /\ pc' = "err_task"
            /\ UNCHANGED <<stats, all_results, k>>
    /\ UNCHANGED <<prog, input, urls, server, concurrency, task, results,
                   output, report, permits>>

\* one iteration of: for handle in handles { match handle.await { .. } }
GuiAwait ==
    /\ prog = "gui" /\ pc = "await"
    /\ k < N
    /\ task[k + 1] \in {"done", "panicked"}
    /\ IF task[k + 1] = "done"
       THEN LET result == output[k + 1][1] IN
            /\ stats' = gui_reduce(stats, result)
            /\ all_results' = Append(all_results, result)
            /\ k' = k + 1
            /\ pc' = pc
       ELSE /\ pc' = "err_task"
            /\ UNCHANGED <<stats, all_results, k>>
    /\ UNCHANGED <<prog, input, urls, server, concurrency, task, results,
                   output, report, permits>>

\* "Calculate average time"; Ok(CheckResponse { results, stats })
GuiRespond ==
    /\ prog = "gui" /\ pc = "await"
    /\ k = N
    /\ stats' = gui_finalize(stats, all_results)
    /\ report' = gui_report(stats')
    /\ pc' = "done"
    /\ UNCHANGED <<prog, input, urls, server, concurrency, task, results,
                   output, k, all_results, permits>>

Next ==
    \/ CliReadUrls
    \/ CliValidate
    \/ CliBuildClient
    \/ CliPull
    \/ \E i \in 1..N : CliComplete(i)
    \/ CliCollected
    \/ CliReduce
    \/ CliExport
    \/ GuiBuildClient
    \/ GuiSpawn
    \/ \E i \in 1..N : GuiAcquire(i)
    \/ \E i \in 1..N : GuiFinish(i)
    \/ \E i \in 1..N : GuiFault(i)
    \/ GuiAwait
    \/ GuiRespond

Spec == Init /\ [][Next]_vars

\* all status codes of the client, single-target runs: the specification
\* of the success classification
InitCodes == InitOf(AllCodes, 1, {1})

SpecCodes == InitCodes /\ [][Next]_vars

\* ---------------------------------------------------------------------
\* What the servers of a run did, for the statements below
\* ---------------------------------------------------------------------
Responded(i) == send(server[i]).ok

Failed(i) == ~send(server[i]).ok

Elapsed(i) == send(server[i]).elapsed

\* a response was received and its code is in [200, 400)
Succeeds(i) ==
    /\ Responded(i)
    /\ 200 <= send(server[i]).code
    /\ send(server[i]).code < 400

Successes == {i \in 1..N : Succeeds(i)}

RECURSIVE SumOver(_, _)
SumOver(f, n) == IF n = 0 THEN 0 ELSE f[n] + SumOver(f, n - 1)

RECURSIVE BagOf(_)
BagOf(seq) ==
    IF seq = <<>> THEN EmptyBag ELSE SetToBag({Head(seq)}) (+) BagOf(Tail(seq))

UrlsOf(rows) == [j \in 1..Len(rows) |-> rows[j].url]

\* main / check_urls returned normally with results and statistics
Returned == pc = "done"

Waiting == {i \in 1..N : task[i] \in {"queued", "waiting"}}

\* ---------------------------------------------------------------------
\* C1: for every concurrency limit C >= 1, in every reachable state the
\* number of checks that started their request and have not yet produced
\* their outcome is at most C, in both dispatchers.
\* ---------------------------------------------------------------------
C1_InFlightAtMostC ==
    concurrency >= 1 => Cardinality(InFlight) <= concurrency

\* the cap is reached while another target still waits for a slot
C1_Witness ==
    /\ concurrency >= 1
    /\ N > concurrency
    /\ Cardinality(InFlight) = concurrency
    /\ Waiting # {}

\* ---------------------------------------------------------------------
\* C2: when a run over N targets returns normally, the outcome sequence
\* has exactly N outcomes and their url fields are the input targets,
\* each as often as it was given (none lost, none duplicated).
\* ---------------------------------------------------------------------
C2_OneOutcomePerTarget ==
    Returned =>
        /\ Len(all_results) = N
        /\ BagOf(UrlsOf(all_results)) = BagOf(urls)

\* a finished run with a response and a transport failure among >= 2 targets
C2_Witness ==
    /\ Returned
    /\ N >= 2
    /\ \E i, j \in 1..N : Responded(i) /\ Failed(j)
    /\ \E i, j \in 1..N : urls[i] # urls[j]

\* ---------------------------------------------------------------------
\* C3: up + down = total after every step of the reduction loop (total
\* is the number of outcomes reduced so far), and total = N when the
\* reduction has finished.
\* ---------------------------------------------------------------------
C3_UpDownTotal ==
    /\ stats.up + stats.down = stats.total
    /\ stats.total = k
    /\ Returned =>
        /\ stats.total = N
        /\ report.total = N
        /\ report.up + report.down = report.total

\* a finished reduction that counted both an up and a down outcome
C3_Witness ==
    /\ Returned
    /\ report.up >= 1
    /\ report.down >= 1

\* ---------------------------------------------------------------------
\* C4: min_time_ms, max_time_ms and avg_time_ms are computed over the
\* successful outcomes only: with at least one success they are the
\* minimum, the maximum and the integer mean of the successful outcomes'
\* time_ms; the time of a 4xx/5xx response contributes to none of them.
\* ---------------------------------------------------------------------
MinElapsed(S) == CHOOSE m \in {Elapsed(i) : i \in S} : \A i \in S : m <= Elapsed(i)

MaxElapsed(S) == CHOOSE m \in {Elapsed(i) : i \in S} : \A i \in S : m >= Elapsed(i)

SuccessTime == [i \in 1..N |-> IF Succeeds(i) THEN Elapsed(i) ELSE 0]

C4_TimesOverSuccessesOnly ==
    (Returned /\ Successes # {}) =>
        /\ report.min_time_ms = MinElapsed(Successes)
        /\ report.max_time_ms = MaxElapsed(Successes)
        /\ report.avg_time_ms = SumOver(SuccessTime, N) \div Cardinality(Successes)

\* ---------------------------------------------------------------------
\* C5: the outcome recorded for a target whose check ended in a transport
\* failure carries as time_ms the time elapsed from the start of the
\* request to the failure (the timeout, for a target that never answers).
\* ---------------------------------------------------------------------
RECURSIVE FailedTargets(_)
FailedTargets(n) ==
    IF n = 0 THEN <<>>
    ELSE FailedTargets(n - 1)
         \o (IF Failed(n) THEN << <<urls[n], Elapsed(n)>> >> ELSE <<>>)

IsErrorRow(r) == r.status = ERROR

ErrorRows == SelectSeq(all_results, IsErrorRow)

C5_FailureKeepsElapsed ==
    Returned =>
        BagOf([j \in 1..Len(ErrorRows) |-> <<ErrorRows[j].url, ErrorRows[j].time_ms>>])
            = BagOf(FailedTargets(N))

\* ---------------------------------------------------------------------
\* C6: an outcome is counted in up iff a response was received and its
\* status code c satisfies 200 <= c < 400; transport failures and all
\* other codes are counted in down. Checked for every status code the
\* client can return (SpecCodes), so that the cli's test of the first
\* character of the status text is compared with the numeric test.
\* ---------------------------------------------------------------------
C6_UpIffCodeIn200To399 ==
    Returned =>
        /\ report.up = Cardinality(Successes)
        /\ report.down = N - Cardinality(Successes)

\* the cli counted a 3xx response as up
C6_Witness ==
    /\ Returned
    /\ prog = "cli"
    /\ N = 1
    /\ Responded(1)
    /\ send(server[1]).code = 399
    /\ report.up = 1

\* ---------------------------------------------------------------------
\* C7: if every target of a non-empty run fails at the transport level,
\* then up = 0, down = N, min_time_ms is reported as unavailable (0, and
\* N/A in the cli's printed statistics), avg_time_ms = 0 and
\* total_size_bytes = 0.
\* ---------------------------------------------------------------------
AllFail == N >= 1 /\ \A i \in 1..N : Failed(i)

C7_AllFail ==
    (Returned /\ AllFail) =>
        /\ report.up = 0
        /\ report.down = N
        /\ report.min_time_ms = 0
        /\ (prog = "cli" => report.times_na)
        /\ report.avg_time_ms = 0
        /\ report.total_size_bytes = 0

\* a finished run of two or more targets that all failed, one after some time
C7_Witness ==
    /\ Returned
    /\ AllFail
    /\ N >= 2
    /\ \E i \in 1..N : Elapsed(i) > 0

\* ---------------------------------------------------------------------
\* C8: total_size_bytes is the sum of size_bytes over all N outcomes: a
\* 4xx/5xx response's advertised length is added, a transport failure
\* contributes 0.
\* ---------------------------------------------------------------------
AdvertisedSize ==
    [i \in 1..N |->
        IF Responded(i) /\ server[i].content_length # NoContentLength
        THEN server[i].content_length ELSE 0]

C8_TotalSizeIsSum ==
    Returned =>
        /\ report.total_size_bytes
             = SumOver([j \in 1..Len(all_results) |-> all_results[j].size_bytes],
                       Len(all_results))
        /\ report.total_size_bytes = SumOver(AdvertisedSize, N)

\* a finished run with a sized 4xx response and a transport failure
C8_Witness ==
    /\ Returned
    /\ \E i \in 1..N : Responded(i) /\ ~Succeeds(i) /\ AdvertisedSize[i] > 0
    /\ \E i \in 1..N : Failed(i)

\* ---------------------------------------------------------------------
\* C9 (as claimed): a run on an empty target list returns normally with
\* an empty outcome set and a statistics record with total = 0.
\* ---------------------------------------------------------------------
\* the target list is known (the cli has read its file) and is empty
EmptyRun == N = 0 /\ pc \notin {"read", "err_read"}

zero_report ==
    [total |-> 0, up |-> 0, down |-> 0, avg_time_ms |-> 0, min_time_ms |-> 0,
     max_time_ms |-> 0, total_size_bytes |-> 0]

ReportedStats ==
    [total |-> report.total, up |-> report.up, down |-> report.down,
     avg_time_ms |-> report.avg_time_ms, min_time_ms |-> report.min_time_ms,
     max_time_ms |-> report.max_time_ms,
     total_size_bytes |-> report.total_size_bytes]

C10_ReturnsAfterAllChecks ==
    /\ Returned =>
          /\ \A i \in 1..N : task[i] = "done"
          /\ k = N
          /\ Len(all_results) = N
    /\ report # no_report => Returned
    /\ (prog = "cli" /\ pc = "reduce") => \A i \in 1..N : task[i] = "done"

\* a run of more targets than slots has returned
C10_Witness ==
    /\ Returned
    /\ concurrency >= 1
    /\ N > concurrency

\* ---------------------------------------------------------------------
\* C11: the statistics do not depend on the completion order: for fixed
\* targets with fixed server behaviour every interleaving ends with the
\* same total, up, down, total_size_bytes, min, max and avg, namely the
\* values below, which are functions of the targets alone.
\* ---------------------------------------------------------------------
Responders == {i \in 1..N : Responded(i)}

\* the outcomes whose time_ms enters min/max/avg in this front end
Timed == IF prog = "cli" THEN Responders ELSE Successes

TimedTime == [i \in 1..N |-> IF i \in Timed THEN Elapsed(i) ELSE 0]

StatsOfTargets ==
    [total |-> N,
     up |-> Cardinality(Successes),
     down |-> N - Cardinality(Successes),
     avg_time_ms |-> IF Successes = {} THEN 0
                     ELSE SumOver(TimedTime, N) \div Cardinality(Successes),
     min_time_ms |-> IF Timed = {} THEN 0 ELSE MinElapsed(Timed),
     max_time_ms |-> IF Timed = {} THEN 0 ELSE MaxElapsed(Timed),
     total_size_bytes |-> SumOver(AdvertisedSize, N)]

C11_OrderIndependent ==
    Returned => ReportedStats = StatsOfTargets

\* a cli run whose outcomes were collected against the input order
C11_Witness ==
    /\ Returned
    /\ prog = "cli"
    /\ N >= 2
    /\ urls[1] # urls[2]
    /\ all_results[1].url = urls[2]
    /\ Elapsed(1) # Elapsed(2)
    /\ Responded(1) /\ Responded(2)

\* ---------------------------------------------------------------------
\* C12: a transport failure of one target is not fatal: the run ends in
\* an error only for an unreadable input, a client that cannot be built
\* or a faulted task; when it returns, every failed target has its own
\* outcome with status ERROR, size 0 and no success, counted in down, and
\* every other target has its outcome too.
\* ---------------------------------------------------------------------
RECURSIVE FailedUrls(_)
FailedUrls(n) ==
    IF n = 0 THEN <<>>
    ELSE FailedUrls(n - 1) \o (IF Failed(n) THEN <<urls[n]>> ELSE <<>>)

C12_FailureIsNotFatal ==
    /\ pc = "err_task" => \E i \in 1..N : task[i] = "panicked"
    /\ pc = "err_build" => \A i \in 1..N : task[i] = "queued"
    /\ pc = "err_read" => N = 0
    /\ Returned =>
          /\ BagOf(UrlsOf(ErrorRows)) = BagOf(FailedUrls(N))
          /\ \A j \in 1..Len(ErrorRows) :
                /\ ErrorRows[j].size_bytes = 0
                /\ prog = "gui" => ~ErrorRows[j].success
          /\ report.down >= Len(ErrorRows)
          /\ Len(all_results) = N
          /\ \A i \in 1..N : task[i] = "done"

\* the first target failed and the run still returned with a response of
\* the second
C12_Witness ==
    /\ Returned
    /\ N >= 2
    /\ Failed(1)
    /\ Responded(2)
    /\ Len(ErrorRows) = 1

\* ---------------------------------------------------------------------
\* C13: with C >= 1, every check terminating and fair scheduling, every
\* target that waits for a slot is eventually admitted and the run
\* eventually returns, also for N > C.
\* ---------------------------------------------------------------------
\* Every step of the run is taken by the async runtime once it is
\* possible: a ready future is polled, a request ends by response, error
\* or timeout, and main is scheduled.
\* Whether a target is admitted does not depend on what its server
\* answers, only on that the request ends: one response and one failure.
LiveServers ==
    { [kind |-> "resp", code |-> 200, content_length |-> NoContentLength,
       elapsed |-> 0],
      [kind |-> "fail", code |-> 0, content_length |-> NoContentLength,
       elapsed |-> timeout_ms] }

InitLive ==
    /\ prog \in {"cli", "gui"}
    /\ concurrency \in 0..MaxC
    /\ IF prog = "cli"
       THEN /\ input \in Files(MaxN)
            /\ urls = <<>>
            /\ server \in [1..Len(filter_urls(ok_lines(input.lines))) -> LiveServers]
            /\ pc = "read"
       ELSE /\ input = no_file
            /\ urls \in RequestUrls(MaxN)
            /\ server \in [1..Len(urls) -> LiveServers]
            /\ pc = "build"
    /\ task = [i \in 1..Len(urls) |-> "queued"]
    /\ results = <<>>
    /\ output = [i \in 1..Len(urls) |-> <<>>]
    /\ k = 0
    /\ all_results = <<>>
    /\ stats = IF prog = "cli" THEN cli_stats0 ELSE gui_stats0
    /\ report = no_report
    /\ permits = concurrency

FairSpec == InitLive /\ [][Next]_vars /\ WF_vars(Next)

Terminal == pc \in {"done", "exit_empty", "err_read", "err_build", "err_task"}

AwaitsSlot(i) ==
    /\ i <= N
    /\ \/ task[i] = "waiting"
       \/ task[i] = "queued" /\ pc \in {"dispatch", "spawn"}

C13_AdmittedAndReturns ==
    /\ (concurrency >= 1) ~> Terminal
    /\ \A i \in 1..MaxN :
          (concurrency >= 1 /\ AwaitsSlot(i)) ~> (i <= N /\ task[i] = "inflight")

\* a gui run of more targets than permits has returned
C13_Witness ==
    /\ Returned
    /\ prog = "gui"
    /\ concurrency >= 1
    /\ N > concurrency
    /\ permits = concurrency

\* ---------------------------------------------------------------------
\* C14: whenever the reduction ends with up = 0, whether by transport
\* failures or by 4xx/5xx responses, min_time_ms is reported as
\* unavailable (0 or N/A) and avg_time_ms is 0.
\* ---------------------------------------------------------------------
C14_NoSuccessNoTimes ==
    (Returned /\ report.up = 0) =>
        /\ report.min_time_ms = 0 \/ report.times_na
        /\ report.avg_time_ms = 0

\* ---------------------------------------------------------------------
\* C15: in the gui a faulted task is fatal for the batch: check_urls
\* returns the task error, hands out no results or statistics, and the
\* fault is never recorded as an outcome of its URL.
\* ---------------------------------------------------------------------
Panicked == {i \in 1..N : task[i] = "panicked"}

C15_TaskFaultIsFatal ==
    /\ pc = "err_task" =>
          /\ prog = "gui"
          /\ k < N
          /\ task[k + 1] = "panicked"
          /\ report = no_report
    /\ Panicked # {} => ~Returned
    /\ \A i \in Panicked : output[i] = <<>>
    /\ Len(all_results) = k
    /\ \A i \in Panicked : k < i

\* check_urls returned the task error after it had collected an outcome
C15_Witness ==
    /\ pc = "err_task"
    /\ k >= 1
    /\ Panicked # {}

\* ---------------------------------------------------------------------
\* C16: a client that cannot be built is fatal before dispatch: the run
\* has returned the error and no check was started, no task spawned and
\* no outcome produced.
\* ---------------------------------------------------------------------
C16_BuildFailureBeforeDispatch ==
    pc = "err_build" =>
        /\ \A i \in 1..N : task[i] = "queued"
        /\ results = <<>>
        /\ \A i \in 1..N : output[i] = <<>>
        /\ all_results = <<>>
        /\ k = 0
        /\ report = no_report
        /\ permits = concurrency

\* the build failed with targets at hand
C16_Witness ==
    /\ pc = "err_build"
    /\ N >= 1

\* ---------------------------------------------------------------------
\* C17: the cli surfaces a failure of the input source distinctly from an
\* empty list: reading returns the error exactly when the source fails
\* (it cannot be opened, or one of its lines cannot be read), and a
\* failing source is never taken for fewer or zero targets; a readable
\* source without non-blank lines makes main return normally.
\* ---------------------------------------------------------------------
InputFails ==
    \/ ~input.readable
    \/ \E j \in 1..Len(input.lines) : ~input.lines[j].ok

C17_ReadFailureIsSurfaced ==
    [][(prog = "cli" /\ pc = "read") => (InputFails <=> pc' = "err_read")]_vars

\* ---------------------------------------------------------------------
\* C18: whenever the reduction ends with up > 0 the reported statistics
\* satisfy min_time_ms <= avg_time_ms <= max_time_ms.
\* ---------------------------------------------------------------------
C18_MinAvgMax ==
    (Returned /\ report.up > 0) =>
        /\ report.min_time_ms <= report.avg_time_ms
        /\ report.avg_time_ms <= report.max_time_ms

\* ---------------------------------------------------------------------
\* C19: in the gui the permits are conserved: available permits plus
\* tasks holding one is C in every state; only a task holding a permit
\* is in flight; when check_urls returns all C permits are available.
\* ---------------------------------------------------------------------
C19_PermitsConserved ==
    prog = "gui" =>
        /\ permits >= 0
        /\ permits + Cardinality(InFlight) = concurrency
        /\ Returned => permits = concurrency

\* the gui returned after a check that failed had given its permit back
C19_Witness ==
    /\ prog = "gui"
    /\ Returned
    /\ concurrency >= 1
    /\ N > concurrency
    /\ \E i \in 1..N : Failed(i)
    /\ permits = concurrency

\* ---------------------------------------------------------------------
\* C20: in the gui the results are in input order whatever the order of
\* completion: the i-th result is the outcome of the i-th request URL.
\* ---------------------------------------------------------------------
C20_GuiResultsInInputOrder ==
    prog = "gui" =>
        \A j \in 1..Len(all_results) :
            /\ all_results[j].url = urls[j]
            /\ all_results[j] = check_single_url(server[j], urls[j])

\* the second check has finished while the first is still in flight
C20_Witness ==
    /\ prog = "gui"
    /\ N >= 2
    /\ urls[1] # urls[2]
    /\ task[1] = "inflight"
    /\ task[2] = "done"

\* ---------------------------------------------------------------------
\* C21: the concurrency limit is not validated: with C = 0 and at least
\* one target no check is ever started and no outcome is ever produced,
\* and the dispatcher never returns, neither with results nor with an
\* error: the cli stays in collect().await with every future still in
\* the stream, the gui stays at the first handle.await with every task
\* waiting for a permit, and no step is possible any more.
\* ---------------------------------------------------------------------
ZeroLimitRun == concurrency = 0 /\ N >= 1

C21_ZeroLimitHangs ==
    ZeroLimitRun =>
        /\ \A i \in 1..N : task[i] \in {"queued", "waiting"}
        /\ results = <<>>
        /\ all_results = <<>>
        /\ k = 0
        /\ report = no_report
        /\ pc \in {"validate", "build", "err_build", "dispatch", "spawn", "await"}
        /\ (pc = "dispatch" \/ (pc = "await" /\ \A i \in 1..N : task[i] = "waiting"))
              => ~ENABLED Next

\* the gui waits for the first handle while all its tasks wait for a permit
C21_Witness ==
    /\ ZeroLimitRun
    /\ prog = "gui"
    /\ N >= 2
    /\ pc = "await"
    /\ \A i \in 1..N : task[i] = "waiting"
    /\ permits = 0

====
